---- MODULE Spec2Model ----
(***************************************************************************)
(* Model of pipapr/runner.py: the streaming tile-acquisition pipelines     *)
(* (baseRunningPipeline, clearscopeRunningPipeline), the tile entity       *)
(* (runningTile) and the clearscope coordinate decoder.                    *)
(*                                                                         *)
(* Python objects are records whose fields are the instance attributes the *)
(* constructor sets: reading an attribute that is no field of the record   *)
(* raises AttributeError, as in Python.  An optional value is a sequence   *)
(* of length at most one: <<>> is None, <<v>> is the value v.              *)
(***************************************************************************)
EXTENDS Integers, Sequences, FiniteSets, TLC

VARIABLES
    pipeline,    \* the pipeline object (self): a record of its attributes
    disk,        \* raw acquisition files/directories on disk: path -> content
    dirs,        \* output directories that exist under the acquisition root
    written,     \* converted files written by pyapr.io.write
    pc,          \* position of the control thread
    tile,        \* the runningTile object at hand (optional)
    raised,      \* name of the exception that ended the call, "" if none
    log,         \* what was done to which tile, in order
    walk,        \* the locals of tile_number_to_row_col and the decoder result
    n_reads      \* number of _load_data invocations (tile harness)

vars == <<pipeline, disk, dirs, written, pc, tile, raised, log, walk, n_reads>>

-----------------------------------------------------------------------------
(* Bounds of the model *)

MaxRow == 2          \* rows of the default pipeline's grid
MaxCol == 3          \* columns of the default pipeline's grid
MaxGrid == 2         \* ScanGridX / ScanGridY of the acquisition settings
MaxChannels == 2     \* n_channels
MaxFiles == 2        \* files or directories in the acquisition folder
MaxStray == 1        \* files on disk that match the pattern and are not the instrument's
MaxWalkRow == 3      \* rows of the decoder's grid
MaxWalkCol == 10     \* columns of the decoder's grid
MaxVersion == 2      \* distinct contents a stored file can take
MaxReads == 3        \* storage reads counted
MaxOps == 4          \* calls made on one tile object

-----------------------------------------------------------------------------
(* Python values *)

None == <<>>
Some(v) == <<v>>
Val(o) == o[1]

Abs(x) == IF x < 0 THEN -x ELSE x

\* np.ceil(a / b) for a >= 0, b > 0
Ceil(a, b) == IF a % b = 0 THEN a \div b ELSE (a \div b) + 1

\* the orders in which glob can list the paths of S
RECURSIVE Perms(_)
Perms(S) ==
    IF S = {} THEN {<<>>}
    ELSE UNION {{<<x>> \o p : p \in Perms(S \ {x})} : x \in S}

HasAttr(obj, name) == name \in DOMAIN obj

\* the tile types runningTile._load_data dispatches on, and one it does not
TileTypes == {"colm", "clearscope", "tiff3D", "apr", "raw", "tiff2D"}

-----------------------------------------------------------------------------
(* Constructors *)

\* baseRunningPipeline.__init__
baseRunningPipeline(nrow, ncol, n_channels, ftype) ==
    [class |-> "baseRunningPipeline",
     path |-> "path",
     next_tile |-> <<0, 0>>,
     tile_processed |-> 0,
     nrow |-> nrow,
     ncol |-> ncol,
     n_tiles |-> nrow * ncol,
     current_tile |-> None,
     type |-> ftype,
     n_channels |-> n_channels,
     converter |-> None,
     lazy_loading |-> None,
     compression |-> FALSE,
     bg |-> None,
     quantization_factor |-> None,
     folder_apr |-> None,
     stitcher |-> None,
     folder_max_projs |-> None]

\* the tail of clearscopeRunningPipeline._parse_acquisition_settings
parse_acquisition_settings(acq_param) ==
    LET nrow == acq_param.ScanGridY
        ncol == acq_param.ScanGridY
    IN  <<nrow, ncol>>

\* clearscopeRunningPipeline.__init__ : it does not call the base constructor
clearscopeRunningPipeline(acq_param, n_channels) ==
    LET grid == parse_acquisition_settings(acq_param)
    IN  [class |-> "clearscopeRunningPipeline",
         path |-> "path/0001",
         acq_param |-> acq_param,
         nrow |-> grid[1],
         ncol |-> grid[2],
         tile_processed |-> 0,
         n_tiles |-> grid[1] * grid[2],
         type |-> "clearscope",
         n_channels |-> n_channels,
         buffer_tile_to_be_processed |-> <<>>,
         converter |-> None,
         lazy_loading |-> None,
         compression |-> FALSE,
         bg |-> None,
         quantization_factor |-> None,
         folder_apr |-> None,
         stitcher |-> None,
         folder_max_projs |-> None]

\* the methods each class defines (inherited ones included)
Methods(class) ==
    LET base == {"run", "set_compression", "deactivate_compression", "activate_conversion",
                 "activate_stitching", "_check_conversion", "_convert_to_apr",
                 "_is_new_tile_available", "_update_next_tile", "_get_tile"}
    IN  IF class = "clearscopeRunningPipeline"
        THEN base \cup {"_parse_acquisition_settings", "_get_row_col", "_get_channel"}
        ELSE base

\* runningTile.__init__
runningTile(path, row, col, ftype, neighbors_path, channel, n_channels) ==
    [path |-> path,
     row |-> row,
     col |-> col,
     type |-> ftype,
     neighbors_path |-> neighbors_path,
     channel |-> channel,
     n_channels |-> n_channels,
     data |-> None,
     apr |-> None,
     parts |-> None,
     parts_cc |-> None,
     lazy_data |-> None,
     data_neighbors |-> None,
     apr_neighbors |-> None,
     parts_neighbors |-> None,
     parts_cc_neighbors |-> None]

-----------------------------------------------------------------------------
(* Coordinate decoder (clearscope) *)

\* int(x) for x given in halves: truncation toward zero
IntOfHalves(h) == IF h >= 0 THEN h \div 2 ELSE -((-h) \div 2)

\* _get_row_col with the fold shifted by one tile: mod(n - ncol, 2*ncol)
get_row_col_n_shifted(n, ncol) ==
    LET col_halves == Abs(2 * ((n - ncol) % (2 * ncol)) - 2 * ncol + 1) + 1
        row_halves == 2 * Ceil(n, ncol)
    IN  <<IntOfHalves(row_halves - 2), IntOfHalves(col_halves - 2)>>

\* _get_row_col without the fold: every row decoded left to right
get_row_col_n_raster(n, ncol) ==
    LET col_halves == 2 * ((n - 1) % ncol) + 2
        row_halves == 2 * Ceil(n, ncol)
    IN  <<IntOfHalves(row_halves - 2), IntOfHalves(col_halves - 2)>>

\* _get_row_col with the row taken as floor(n / ncol) + 1
get_row_col_n_floor(n, ncol) ==
    LET col_halves == Abs(2 * ((n - ncol - 1) % (2 * ncol)) - 2 * ncol + 1) + 1
        row_halves == 2 * ((n \div ncol) + 1)
    IN  <<IntOfHalves(row_halves - 2), IntOfHalves(col_halves - 2)>>

\* the arithmetic of clearscopeRunningPipeline._get_row_col, for tile number n.
\* The floating-point terms +0.5 are kept exact by computing in halves.
get_row_col_n(n, ncol) ==
    LET col_halves == Abs(2 * ((n - ncol - 1) % (2 * ncol)) - 2 * ncol + 1) + 1
        row_halves == 2 * Ceil(n, ncol)
        col == IntOfHalves(col_halves - 2)
        row == IntOfHalves(row_halves - 2)
    IN  <<row, col>>

\* clearscopeRunningPipeline._get_row_col : n stays unbound when the name of
\* the directory does not match the pattern
get_row_col(self, path) ==
    LET pattern_search == IF path.ok THEN <<path.n>> ELSE <<>>
    IN  IF pattern_search = <<>>
        THEN [raised |-> "UnboundLocalError", row |-> 0, col |-> 0]
        ELSE LET rc == get_row_col_n(pattern_search[1], self.ncol)
             IN  [raised |-> "", row |-> rc[1], col |-> rc[2]]

\* clearscopeRunningPipeline._get_channel : None when the name does not match
get_channel(self, path) ==
    LET pattern_search == IF path.ok THEN <<path.ch>> ELSE <<>>
    IN  IF pattern_search # <<>> THEN Some(pattern_search[1]) ELSE None

\* one iteration (index i = Len(w.rows)) of the loop of tile_number_to_row_col
walk_step(w) ==
    LET i == Len(w.rows)
        rows1 == Append(w.rows, w.row)
        cols1 == IF i = 0 THEN Append(w.cols, 0)
                 ELSE IF w.wait THEN Append(w.cols, w.cols[Len(w.cols)])
                 ELSE Append(w.cols, w.cols[Len(w.cols)] + w.direction)
        last == cols1[Len(cols1)]
        \* first if / elif
        a == IF last = w.ncol - 1 /\ ~w.wait
             THEN [direction |-> -1, wait |-> TRUE, row |-> w.row + 1]
             ELSE IF last = w.ncol - 1 /\ w.wait
             THEN [direction |-> w.direction, wait |-> FALSE, row |-> w.row]
             ELSE [direction |-> w.direction, wait |-> w.wait, row |-> w.row]
        \* second if / elif
        b == IF last = 0 /\ ~a.wait
             THEN [direction |-> 1, wait |-> TRUE, row |-> a.row + 1]
             ELSE IF last = 0 /\ a.wait
             THEN [direction |-> a.direction, wait |-> FALSE, row |-> a.row]
             ELSE a
    IN  [w EXCEPT !.rows = rows1, !.cols = cols1,
                  !.direction = b.direction, !.wait = b.wait, !.row = b.row]

\* the locals of tile_number_to_row_col(nrow, ncol) before its loop
walk_init(nrow, ncol) ==
    [nrow |-> nrow, ncol |-> ncol, rows |-> <<>>, cols |-> <<>>,
     row |-> 0, wait |-> TRUE, direction |-> 1, dec |-> <<>>]

NoWalk == walk_init(0, 0)

-----------------------------------------------------------------------------
(* runningTile *)

\* what a read of path returns: its content, or FileNotFoundError
read_file(dsk, path) ==
    IF path \in DOMAIN dsk THEN [raised |-> "", u |-> dsk[path]]
    ELSE [raised |-> "FileNotFoundError", u |-> 0]

\* a stack read from the files globbed in a folder: empty when there is none
read_folder(dsk, path) ==
    IF path \in DOMAIN dsk THEN [raised |-> "", u |-> dsk[path]]
    ELSE [raised |-> "", u |-> 0]

\* _load_data reading any other type as one file
load_data_any_type(t, path, dsk) ==
    IF t.type = "colm" THEN read_folder(dsk, path)
    ELSE IF t.type = "clearscope" THEN read_folder(dsk, t.path)
    ELSE read_file(dsk, path)

\* runningTile._load_data
load_data(t, path, dsk) ==
    IF t.type = "colm" THEN read_folder(dsk, path)
    ELSE IF t.type = "clearscope" THEN read_folder(dsk, t.path)
    ELSE IF t.type = "tiff3D" THEN read_file(dsk, path)
    ELSE IF t.type = "apr" THEN read_file(dsk, path)
    ELSE IF t.type = "raw" THEN read_file(dsk, path)
    ELSE [raised |-> "TypeError", u |-> 0]

\* load_tile without the "is None" tests: it reads at every call
load_tile_reload(t, dsk) ==
    LET u == load_data(t, t.path, dsk)
    IN  IF u.raised # ""
        THEN [tile |-> t, raised |-> u.raised, reads |-> 1]
        ELSE IF t.type = "apr"
        THEN [tile |-> [t EXCEPT !.apr = Some(u.u), !.parts = Some(u.u)],
              raised |-> "", reads |-> 1]
        ELSE [tile |-> [t EXCEPT !.data = Some(u.u)], raised |-> "", reads |-> 1]

\* runningTile.load_tile : reads counts the calls of _load_data
load_tile(t, dsk) ==
    IF t.type = "apr"
    THEN IF t.apr = None
         THEN LET u == load_data(t, t.path, dsk)
              IN  IF u.raised # ""
                  THEN [tile |-> t, raised |-> u.raised, reads |-> 1]
                  ELSE [tile |-> [t EXCEPT !.apr = Some(u.u), !.parts = Some(u.u)],
                        raised |-> "", reads |-> 1]
         ELSE [tile |-> t, raised |-> "", reads |-> 0]
    ELSE IF t.data = None
         THEN LET u == load_data(t, t.path, dsk)
              IN  IF u.raised # ""
                  THEN [tile |-> t, raised |-> u.raised, reads |-> 1]
                  ELSE [tile |-> [t EXCEPT !.data = Some(u.u)], raised |-> "", reads |-> 1]
         ELSE [tile |-> t, raised |-> "", reads |-> 0]

\* the first i whose read raised, 0 when none did
FirstRaised(us) ==
    IF \E i \in 1..Len(us) : us[i].raised # ""
    THEN CHOOSE i \in 1..Len(us) :
             /\ us[i].raised # ""
             /\ \A j \in 1..(i - 1) : us[j].raised = ""
    ELSE 0

\* load_neighbors releasing the tile's own data once the neighbors are read
load_neighbors_release(t, dsk) ==
    IF t.data_neighbors = None
    THEN IF t.neighbors_path = None
         THEN [tile |-> t, raised |-> "TypeError", reads |-> 0]
         ELSE LET paths == Val(t.neighbors_path)
                  us == [i \in 1..Len(paths) |-> load_data(t, paths[i], dsk)]
                  u == [i \in 1..Len(paths) |-> us[i].u]
              IN  IF FirstRaised(us) # 0
                  THEN [tile |-> t, raised |-> us[FirstRaised(us)].raised,
                        reads |-> FirstRaised(us)]
                  ELSE IF t.type = "apr"
                  THEN [tile |-> [t EXCEPT !.apr = None, !.parts = None,
                                           !.apr_neighbors = Some(u),
                                           !.parts_neighbors = Some(u)],
                        raised |-> "", reads |-> Len(paths)]
                  ELSE [tile |-> [t EXCEPT !.data = None, !.data_neighbors = Some(u)],
                        raised |-> "", reads |-> Len(paths)]
    ELSE [tile |-> t, raised |-> "", reads |-> 0]

\* runningTile.load_neighbors : reads counts the calls of _load_data
load_neighbors(t, dsk) ==
    IF t.data_neighbors = None
    THEN IF t.neighbors_path = None
         THEN [tile |-> t, raised |-> "TypeError", reads |-> 0]
         ELSE LET paths == Val(t.neighbors_path)
                  us == [i \in 1..Len(paths) |-> load_data(t, paths[i], dsk)]
                  u == [i \in 1..Len(paths) |-> us[i].u]
              IN  IF FirstRaised(us) # 0
                  THEN [tile |-> t, raised |-> us[FirstRaised(us)].raised,
                        reads |-> FirstRaised(us)]
                  ELSE IF t.type = "apr"
                  THEN [tile |-> [t EXCEPT !.apr_neighbors = Some(u),
                                           !.parts_neighbors = Some(u)],
                        raised |-> "", reads |-> Len(paths)]
                  ELSE [tile |-> [t EXCEPT !.data_neighbors = Some(u)],
                        raised |-> "", reads |-> Len(paths)]
    ELSE [tile |-> t, raised |-> "", reads |-> 0]

\* what aprfile.open and the reads after it do on a path that holds no APR
\* file: raise, or return having read nothing
OpenOutcomes == {"raise", "silent"}

\* the APR data pyapr reads from a file it could not open
EmptyApr == 0

\* load_segmentation without the test of parts_cc: it opens the file at every call
load_segmentation_reload(t, load_tree, dsk, outcome) ==
    LET readable == t.path \in DOMAIN dsk /\ t.type = "apr"
        u == IF readable THEN dsk[t.path] ELSE EmptyApr
        t1 == IF load_tree THEN [t EXCEPT !.apr = Some(u)] ELSE t
    IN  IF ~readable /\ outcome = "raise"
        THEN [tile |-> t, raised |-> "IOError", reads |-> 1]
        ELSE IF t1.apr = None
        THEN [tile |-> t1, raised |-> "TypeError", reads |-> 1]
        ELSE [tile |-> [t1 EXCEPT !.parts_cc = Some(u)], raised |-> "", reads |-> 1]

\* runningTile.load_segmentation : reads counts the files opened
load_segmentation(t, load_tree, dsk, outcome) ==
    IF t.parts_cc = None
    THEN LET readable == t.path \in DOMAIN dsk /\ t.type = "apr"
             u == IF readable THEN dsk[t.path] ELSE EmptyApr
             t1 == IF load_tree THEN [t EXCEPT !.apr = Some(u)] ELSE t
         IN  IF ~readable /\ outcome = "raise"
             THEN [tile |-> t, raised |-> "IOError", reads |-> 1]
             ELSE IF t1.apr = None
             THEN [tile |-> t1, raised |-> "TypeError", reads |-> 1]
             ELSE [tile |-> [t1 EXCEPT !.parts_cc = Some(u)], raised |-> "", reads |-> 1]
    ELSE [tile |-> t, raised |-> "", reads |-> 0]

\* _erase_from_disk without the test of the type
erase_from_disk_any_type(t, dsk) ==
    IF t.path \in DOMAIN dsk
    THEN [disk |-> [p \in DOMAIN dsk \ {t.path} |-> dsk[p]], raised |-> ""]
    ELSE [disk |-> dsk, raised |-> "FileNotFoundError"]

\* runningTile._erase_from_disk
erase_from_disk(t, dsk) ==
    IF t.type = "tiff3D"
    THEN IF t.path \in DOMAIN dsk
         THEN [disk |-> [p \in DOMAIN dsk \ {t.path} |-> dsk[p]], raised |-> ""]
         ELSE [disk |-> dsk, raised |-> "FileNotFoundError"]
    ELSE [disk |-> dsk, raised |-> ""]

-----------------------------------------------------------------------------
(* Pipeline configuration *)

QuantizationFactors == {1, 2}
Backgrounds == {108}
Overlaps == {40}

\* baseRunningPipeline.set_compression
set_compression(self, quantization_factor, bg) ==
    [self EXCEPT !.compression = TRUE,
                 !.bg = Some(bg),
                 !.quantization_factor = Some(quantization_factor)]

\* deactivate_compression forgetting to reset the background value
deactivate_compression_keep_bg(self) ==
    [self EXCEPT !.compression = FALSE,
                 !.quantization_factor = None]

\* baseRunningPipeline.deactivate_compression
deactivate_compression(self) ==
    [self EXCEPT !.compression = FALSE,
                 !.bg = None,
                 !.quantization_factor = None]

\* baseRunningPipeline.activate_conversion : the object after the call
activate_conversion(self, lazy_loading) ==
    [self EXCEPT !.lazy_loading = Some(lazy_loading),
                 !.folder_apr = Some("APR"),
                 !.converter = Some("FloatConverter")]

\* baseRunningPipeline.activate_stitching : the object after the call
activate_stitching(self, overlap_h, overlap_v) ==
    [self EXCEPT !.stitcher = Some(TRUE),
                 !.folder_max_projs = Some("max_projs")]

-----------------------------------------------------------------------------
(* Watchers *)

\* the paths glob returns for the pattern _is_new_tile_available builds
glob_matches(self, dsk) ==
    IF self.class = "baseRunningPipeline"
    THEN {p \in DOMAIN dsk : p.row = self.next_tile[1] /\ p.col = self.next_tile[2]}
    ELSE DOMAIN dsk

\* baseRunningPipeline._get_tile
get_tile(self, path) ==
    IF "_get_row_col" \notin Methods(self.class)
    THEN [raised |-> "AttributeError", tile |-> None]
    ELSE LET rc == get_row_col(self, path)
         IN  IF rc.raised # ""
             THEN [raised |-> rc.raised, tile |-> None]
             ELSE IF "_get_channel" \notin Methods(self.class)
             THEN [raised |-> "AttributeError", tile |-> None]
             ELSE [raised |-> "",
                   tile |-> Some(runningTile(path, rc.row, rc.col, self.type, None,
                                             get_channel(self, path), self.n_channels))]

\* _is_new_tile_available taking the first of several matches
base_is_new_tile_available_first(self, path) ==
    IF path = <<>>
    THEN [self |-> self, raised |-> "", pair |-> TRUE, available |-> FALSE, tile |-> None]
    ELSE LET self1 == [self EXCEPT !.current_tile = Some(<<self.next_tile[1], self.next_tile[2]>>)]
             t == get_tile(self1, path[1])
         IN  [self |-> self1, raised |-> t.raised, pair |-> TRUE,
              available |-> (t.raised = ""), tile |-> t.tile]

\* _is_new_tile_available storing the cursor as current tile before it looks
\* at what glob returned
base_is_new_tile_available_store_first(self, path) ==
    LET self1 == [self EXCEPT !.current_tile = Some(<<self.next_tile[1], self.next_tile[2]>>)]
    IN  IF path = <<>>
        THEN [self |-> self1, raised |-> "", pair |-> TRUE, available |-> FALSE, tile |-> None]
        ELSE IF Len(path) = 1
        THEN LET t == get_tile(self1, path[1])
             IN  [self |-> self1, raised |-> t.raised, pair |-> TRUE,
                  available |-> (t.raised = ""), tile |-> t.tile]
        ELSE [self |-> self1, raised |-> "TypeError", pair |-> TRUE, available |-> FALSE,
              tile |-> None]

\* baseRunningPipeline._is_new_tile_available ; path is what glob returned.
\* pair: the call returned a 2-tuple.
base_is_new_tile_available(self, path) ==
    IF path = <<>>
    THEN [self |-> self, raised |-> "", pair |-> TRUE, available |-> FALSE, tile |-> None]
    ELSE IF Len(path) = 1
    THEN LET self1 == [self EXCEPT !.current_tile = Some(<<self.next_tile[1], self.next_tile[2]>>)]
             t == get_tile(self1, path[1])
         IN  [self |-> self1, raised |-> t.raised, pair |-> TRUE,
              available |-> (t.raised = ""), tile |-> t.tile]
    ELSE [self |-> self, raised |-> "TypeError", pair |-> TRUE, available |-> FALSE,
          tile |-> None]

\* clearscopeRunningPipeline._is_new_tile_available ; paths is what glob returned
clearscope_is_new_tile_available(self, paths) ==
    LET self1 == [self EXCEPT !.buffer_tile_to_be_processed = @ \o paths]
    IN  IF self1.buffer_tile_to_be_processed = <<>>
        THEN [self |-> self1, raised |-> "", pair |-> TRUE, available |-> FALSE, tile |-> None]
        ELSE IF Len(paths) >= 1
        THEN LET t == get_tile(self1, paths[1])
             IN  [self |-> self1, raised |-> t.raised, pair |-> TRUE,
                  available |-> (t.raised = ""), tile |-> t.tile]
        ELSE [self |-> self1, raised |-> "", pair |-> FALSE, available |-> FALSE,
              tile |-> None]

\* self._is_new_tile_available() as the class of self resolves it
is_new_tile_available(self, paths) ==
    IF self.class = "clearscopeRunningPipeline"
    THEN clearscope_is_new_tile_available(self, paths)
    ELSE base_is_new_tile_available(self, paths)

\* _update_next_tile stepping to the next row at every call
update_next_tile_row_first(self) ==
    [self |-> [self EXCEPT !.next_tile = <<Val(self.current_tile)[1] + 1,
                                            Val(self.current_tile)[2]>>],
     raised |-> ""]

\* baseRunningPipeline._update_next_tile : the comparison reads self.current_tile,
\* subscripts it, then reads self.n_col
update_next_tile(self) ==
    IF ~HasAttr(self, "current_tile") THEN [self |-> self, raised |-> "AttributeError"]
    ELSE IF self.current_tile = None THEN [self |-> self, raised |-> "TypeError"]
    ELSE IF ~HasAttr(self, "n_col") THEN [self |-> self, raised |-> "AttributeError"]
    ELSE IF Val(self.current_tile)[2] = self.n_col - 1
    THEN [self |-> [self EXCEPT !.next_tile = <<Val(self.current_tile)[1] + 1, 0>>],
          raised |-> ""]
    ELSE [self |-> [self EXCEPT !.next_tile = <<Val(self.current_tile)[1],
                                                 Val(self.current_tile)[2] + 1>>],
          raised |-> ""]

-----------------------------------------------------------------------------
(* Conversion *)

Truthy(o) == o # None /\ Val(o)

ChNames == <<"APR/ch0", "APR/ch1", "APR/ch2", "APR/ch3", "APR/ch4",
             "APR/ch5", "APR/ch6", "APR/ch7", "APR/ch8", "APR/ch9">>

\* os.path.join(self.folder_apr, 'ch{}'.format(tile.channel))
ChDir(channel) == IF channel = None THEN "APR/chNone" ELSE ChNames[Val(channel) + 1]

\* what pyapr.io.write can do when the folder of the file does not exist
WriteOutcomes == {"raise", "silent"}

\* the steps _convert_to_apr has performed on the tile at t.path, in order
ConvertEvents(self, t, wrote) ==
    <<[op |-> "convert", path |-> t.path]>>
    \o (IF self.compression THEN <<[op |-> "compress", path |-> t.path]>> ELSE <<>>)
    \o (IF Truthy(self.lazy_loading)
        THEN <<[op |-> "tree", path |-> t.path]>> ELSE <<>>)
    \o (IF wrote THEN <<[op |-> "write", path |-> t.path]>> ELSE <<>>)

convert_to_apr_always_compress(self, t, ds, outcome) ==
    IF t.data = None
    THEN [raised |-> "TypeError", file |-> None,
          events |-> <<[op |-> "convert", path |-> t.path]>>]
    ELSE LET apr == Val(t.data)
             parts == [values |-> Val(t.data),
                       compression_type |-> 1,
                       quantization_factor |-> self.quantization_factor,
                       background |-> self.bg]
             tree_parts == IF Truthy(self.lazy_loading) THEN Some(apr) ELSE None
             file == [ch |-> t.channel, row |-> t.row, col |-> t.col, src |-> t.path,
                      apr |-> apr, parts |-> parts, tree_parts |-> tree_parts]
         IN  IF ChDir(t.channel) \in ds
             THEN [raised |-> "", file |-> Some(file),
                   events |-> ConvertEvents([self EXCEPT !.compression = TRUE], t, TRUE)]
             ELSE IF outcome = "raise"
             THEN [raised |-> "IOError", file |-> None,
                   events |-> ConvertEvents([self EXCEPT !.compression = TRUE], t, FALSE)]
             ELSE [raised |-> "", file |-> None,
                   events |-> ConvertEvents([self EXCEPT !.compression = TRUE], t, FALSE)]

\* _convert_to_apr deriving the tree particles whatever lazy_loading is
convert_to_apr_always_tree(self, t, ds, outcome) ==
    IF t.data = None
    THEN [raised |-> "TypeError", file |-> None,
          events |-> <<[op |-> "convert", path |-> t.path]>>]
    ELSE LET apr == Val(t.data)
             parts == [values |-> Val(t.data),
                       compression_type |-> IF self.compression THEN 1 ELSE 0,
                       quantization_factor |->
                           IF self.compression THEN self.quantization_factor ELSE None,
                       background |-> IF self.compression THEN self.bg ELSE None]
             file == [ch |-> t.channel, row |-> t.row, col |-> t.col, src |-> t.path,
                      apr |-> apr, parts |-> parts, tree_parts |-> Some(apr)]
             lazy == [self EXCEPT !.lazy_loading = Some(TRUE)]
         IN  IF ChDir(t.channel) \in ds
             THEN [raised |-> "", file |-> Some(file), events |-> ConvertEvents(lazy, t, TRUE)]
             ELSE IF outcome = "raise"
             THEN [raised |-> "IOError", file |-> None,
                   events |-> ConvertEvents(lazy, t, FALSE)]
             ELSE [raised |-> "", file |-> None, events |-> ConvertEvents(lazy, t, FALSE)]

\* baseRunningPipeline._convert_to_apr ; file: the file written, if any ;
\* events: the steps performed, in order
convert_to_apr(self, t, ds, outcome) ==
    IF t.data = None
    THEN [raised |-> "TypeError", file |-> None,
          events |-> <<[op |-> "convert", path |-> t.path]>>]
    ELSE LET apr == Val(t.data)
             parts == [values |-> Val(t.data),
                       compression_type |-> IF self.compression THEN 1 ELSE 0,
                       quantization_factor |->
                           IF self.compression THEN self.quantization_factor ELSE None,
                       background |-> IF self.compression THEN self.bg ELSE None]
             tree_parts == IF Truthy(self.lazy_loading) THEN Some(apr) ELSE None
             file == [ch |-> t.channel, row |-> t.row, col |-> t.col, src |-> t.path,
                      apr |-> apr, parts |-> parts, tree_parts |-> tree_parts]
         IN  IF ChDir(t.channel) \in ds
             THEN [raised |-> "", file |-> Some(file),
                   events |-> ConvertEvents(self, t, TRUE)]
             ELSE IF outcome = "raise"
             THEN [raised |-> "IOError", file |-> None,
                   events |-> ConvertEvents(self, t, FALSE)]
             ELSE [raised |-> "", file |-> None,
                   events |-> ConvertEvents(self, t, FALSE)]

\* conversion_ok of baseRunningPipeline._check_conversion
conversion_ok == FALSE

Event(op, path) == [op |-> op, path |-> path]

\* _check_conversion with the test inverted: it erases when the check failed
check_conversion_inverted(t, dsk) ==
    IF ~conversion_ok
    THEN LET e == erase_from_disk(t, dsk)
         IN  [disk |-> e.disk, raised |-> e.raised,
              events |-> <<Event("check", t.path), Event("erase", t.path)>>]
    ELSE [disk |-> dsk, raised |-> "", events |-> <<Event("check", t.path)>>]

\* _check_conversion erasing the raw data before it checks anything
check_conversion_erase_first(t, dsk) ==
    LET e == erase_from_disk(t, dsk)
    IN  [disk |-> e.disk, raised |-> e.raised,
         events |-> <<Event("erase", t.path), Event("check", t.path)>>]

\* baseRunningPipeline._check_conversion ; events: what it did, in order
check_conversion(t, dsk) ==
    IF conversion_ok
    THEN LET e == erase_from_disk(t, dsk)
         IN  [disk |-> e.disk, raised |-> e.raised,
              events |-> <<Event("check", t.path), Event("erase", t.path)>>]
    ELSE [disk |-> dsk, raised |-> "", events |-> <<Event("check", t.path)>>]

-----------------------------------------------------------------------------
(* The run of a pipeline: Spec *)

IsBase == pipeline.class = "baseRunningPipeline"
IsClearscope == pipeline.class = "clearscopeRunningPipeline"

EmptyDisk == [p \in {} |-> 0]

\* the file or directory at path q is written with content v
put(dsk, q, v) == [p \in DOMAIN dsk \cup {q} |-> IF p = q THEN v ELSE dsk[p]]

Channels == 0..(MaxChannels - 1)

\* output folders under the acquisition root before the pipeline is set up:
\* none, or what a former conversion left (APR, with or without the folders
\* of the channels)
InitialDirs ==
    {{}, {"APR"}, {"APR"} \cup {ChDir(Some(c)) : c \in Channels}}

Pipelines ==
    {baseRunningPipeline(nrow, ncol, n_channels, ftype) :
        nrow \in 1..MaxRow, ncol \in 1..MaxCol, n_channels \in 1..MaxChannels,
        ftype \in {"tiff3D", "tiff2D"}}
    \cup
    {clearscopeRunningPipeline([ScanGridX |-> x, ScanGridY |-> y], n_channels) :
        x \in 1..MaxGrid, y \in 1..MaxGrid, n_channels \in 1..MaxChannels}

Init ==
    /\ pipeline \in Pipelines
    /\ disk = EmptyDisk
    /\ dirs \in InitialDirs
    /\ written = {}
    /\ pc = "config"
    /\ tile = None
    /\ raised = ""
    /\ log = <<>>
    /\ walk = NoWalk
    /\ n_reads = 0

Running == pc \notin {"done", "error"}

\* tiles the instrument has written so far
Acquired == {p \in DOMAIN disk : IF IsBase THEN p.root = 1 ELSE p.ok}
Strays == DOMAIN disk \ Acquired

\* the k-th tile (k = 0, 1, ...) of the acquisition: the default instrument
\* writes {row}_{col}.tif in raster order, clearscope one directory per tile
\* number and channel
AcquisitionPath(k) ==
    IF IsBase
    THEN [root |-> 1, row |-> k \div pipeline.ncol, col |-> k % pipeline.ncol]
    ELSE [ok |-> TRUE, n |-> (k \div pipeline.n_channels) + 1, ch |-> k % pipeline.n_channels]

AcquisitionSize ==
    IF IsBase THEN pipeline.nrow * pipeline.ncol
    ELSE pipeline.acq_param.ScanGridX * pipeline.acq_param.ScanGridY * pipeline.n_channels

\* The instrument writes its next tile.  The program looks at the acquisition
\* folder in its polls only, so a tile that arrives at any time arrives
\* between two polls.
Acquire ==
    /\ pc = "poll"
    /\ Cardinality(Acquired) < AcquisitionSize
    /\ Cardinality(DOMAIN disk) < MaxFiles
    /\ disk' = put(disk, AcquisitionPath(Cardinality(Acquired)), 1)
    /\ UNCHANGED <<pipeline, dirs, written, pc, tile, raised, log, walk, n_reads>>

\* Something else that matches the glob pattern.  Default pipeline: the
\* pattern is joined to self.path, whose magic characters glob expands, so a
\* second folder written in the same raster order can match: its k-th file.
\* Clearscope: a directory 000000_*_*c whose name the decoder's pattern does
\* not match.
StrayPath(k) ==
    IF IsBase
    THEN [root |-> 2, row |-> k \div pipeline.ncol, col |-> k % pipeline.ncol]
    ELSE [ok |-> FALSE, n |-> k, ch |-> 0]

Stray ==
    /\ pc = "poll"
    /\ Cardinality(Strays) < MaxStray
    /\ Cardinality(DOMAIN disk) < MaxFiles
    /\ IsBase => Cardinality(Strays) < pipeline.nrow * pipeline.ncol
    /\ disk' = put(disk, StrayPath(Cardinality(Strays)), 1)
    /\ UNCHANGED <<pipeline, dirs, written, pc, tile, raised, log, walk, n_reads>>

SetCompression ==
    /\ pc = "config"
    /\ \E q \in QuantizationFactors, bg \in Backgrounds :
           pipeline' = set_compression(pipeline, q, bg)
    /\ UNCHANGED <<disk, dirs, written, pc, tile, raised, log, walk, n_reads>>

DeactivateCompression ==
    /\ pc = "config"
    /\ pipeline' = deactivate_compression(pipeline)
    /\ UNCHANGED <<disk, dirs, written, pc, tile, raised, log, walk, n_reads>>

\* activate_conversion, with its mkdir of the APR folder
ActivateConversion ==
    /\ pc = "config"
    /\ \E lazy_loading \in BOOLEAN :
           pipeline' = activate_conversion(pipeline, lazy_loading)
    /\ dirs' = dirs \cup {"APR"}
    /\ UNCHANGED <<disk, written, pc, tile, raised, log, walk, n_reads>>

\* activate_stitching, with its mkdir of the max_projs folder
ActivateStitching ==
    /\ pc = "config"
    /\ \E o \in Overlaps : pipeline' = activate_stitching(pipeline, o, o)
    /\ dirs' = dirs \cup {"max_projs"}
    /\ UNCHANGED <<disk, written, pc, tile, raised, log, walk, n_reads>>

\* the test of run's while loop
loop_test(self) == IF self.tile_processed < self.n_tiles THEN "poll" ELSE "done"

\* run() is called
RunStart ==
    /\ pc = "config"
    /\ pc' = loop_test(pipeline)
    /\ UNCHANGED <<pipeline, disk, dirs, written, tile, raised, log, walk, n_reads>>

\* where run goes after load_tile, and after the conversion block
after_convert(self) == IF self.stitcher = Some(TRUE) THEN "stitch" ELSE "advance"
after_load(self) == IF self.converter # None THEN "convert" ELSE after_convert(self)

\* is_available, tile = self._is_new_tile_available(), and sleep(1) when not available
Poll ==
    /\ pc = "poll"
    /\ \E paths \in Perms(glob_matches(pipeline, disk)) :
           LET r == is_new_tile_available(pipeline, paths)
           IN  /\ pipeline' = r.self
               /\ IF r.raised # ""
                  THEN pc' = "error" /\ raised' = r.raised /\ tile' = None /\ log' = log
                  ELSE IF ~r.pair
                  THEN pc' = "error" /\ raised' = "TypeError" /\ tile' = None /\ log' = log
                  ELSE IF r.available
                  THEN /\ pc' = "load"
                       /\ raised' = ""
                       /\ tile' = r.tile
                       /\ log' = Append(log, Event("detect", Val(r.tile).path))
                  ELSE pc' = "poll" /\ raised' = "" /\ tile' = None /\ log' = log
    /\ UNCHANGED <<disk, dirs, written, walk, n_reads>>

\* tile.load_tile()
Load ==
    /\ pc = "load"
    /\ LET r == load_tile(Val(tile), disk)
       IN  /\ tile' = Some(r.tile)
           /\ log' = Append(log, Event(IF r.raised = "" THEN "load" ELSE "load_raised",
                                       Val(tile).path))
           /\ raised' = r.raised
           /\ pc' = IF r.raised # "" THEN "error" ELSE after_load(pipeline)
    /\ UNCHANGED <<pipeline, disk, dirs, written, walk, n_reads>>

\* self._convert_to_apr(tile)
Convert ==
    /\ pc = "convert"
    /\ \E outcome \in WriteOutcomes :
           LET r == convert_to_apr(pipeline, Val(tile), dirs, outcome)
           IN  /\ written' = IF r.file # None THEN written \cup {Val(r.file)} ELSE written
               /\ log' = log \o r.events
               /\ raised' = r.raised
               /\ pc' = IF r.raised # "" THEN "error" ELSE "check"
    /\ UNCHANGED <<pipeline, disk, dirs, tile, walk, n_reads>>

\* self._check_conversion(tile)
Check ==
    /\ pc = "check"
    /\ LET r == check_conversion(Val(tile), disk)
       IN  /\ disk' = r.disk
           /\ log' = log \o r.events
           /\ raised' = r.raised
           /\ pc' = IF r.raised # "" THEN "error" ELSE after_convert(pipeline)
    /\ UNCHANGED <<pipeline, dirs, written, tile, walk, n_reads>>

\* self._pre_stitch(tile) : no class defines _pre_stitch
PreStitch ==
    /\ pc = "stitch"
    /\ IF "_pre_stitch" \in Methods(pipeline.class)
       THEN pc' = "advance" /\ raised' = ""
       ELSE pc' = "error" /\ raised' = "AttributeError"
    /\ UNCHANGED <<pipeline, disk, dirs, written, tile, log, walk, n_reads>>

\* the end of an iteration: self._update_next_tile(), self.tile_processed += 1,
\* for clearscope self.buffer_tile_to_be_processed.pop(0), and the loop test
end_of_iteration(self) ==
    LET r == update_next_tile(self)
    IN  IF r.raised # ""
        THEN r
        ELSE LET s1 == [r.self EXCEPT !.tile_processed = @ + 1]
             IN  IF s1.class = "clearscopeRunningPipeline"
                 THEN [self |-> [s1 EXCEPT !.buffer_tile_to_be_processed = Tail(@)],
                       raised |-> ""]
                 ELSE [self |-> s1, raised |-> ""]

Advance ==
    /\ pc = "advance"
    /\ LET r == end_of_iteration(pipeline)
       IN  /\ pipeline' = r.self
           /\ raised' = r.raised
           /\ pc' = IF r.raised # "" THEN "error" ELSE loop_test(r.self)
           /\ tile' = IF r.raised # "" THEN tile ELSE None
           /\ log' = IF r.raised # "" THEN log
                     ELSE log \o <<Event("advance", Val(tile).path),
                                   Event("count", Val(tile).path)>>
    /\ UNCHANGED <<disk, dirs, written, walk, n_reads>>

Next ==
    \/ Acquire
    \/ Stray
    \/ SetCompression
    \/ DeactivateCompression
    \/ ActivateConversion
    \/ ActivateStitching
    \/ RunStart
    \/ Poll
    \/ Load
    \/ Convert
    \/ Check
    \/ PreStitch
    \/ Advance

Spec == Init /\ [][Next]_vars

-----------------------------------------------------------------------------
(* The clearscope decoder on the tile numbers of a grid, beside the walk of *)
(* tile_number_to_row_col: SpecDecoder                                      *)

InitDecoder ==
    /\ \E nrow \in 1..MaxWalkRow, ncol \in 1..MaxWalkCol :
           /\ walk = walk_init(nrow, ncol)
           /\ pipeline = clearscopeRunningPipeline([ScanGridX |-> nrow, ScanGridY |-> ncol], 1)
    /\ disk = EmptyDisk
    /\ dirs = {}
    /\ written = {}
    /\ pc = "decoder"
    /\ tile = None
    /\ raised = ""
    /\ log = <<>>
    /\ n_reads = 0

\* the directory name the instrument gives tile number n, channel 0
TileDirectory(n) == [ok |-> TRUE, n |-> n, ch |-> 0]

\* self._get_row_col on the directory of the next tile number
Decode ==
    /\ pc = "decoder"
    /\ Len(walk.dec) < walk.nrow * walk.ncol
    /\ LET r == get_row_col(pipeline, TileDirectory(Len(walk.dec) + 1))
       IN  /\ raised' = r.raised
           /\ walk' = [walk EXCEPT !.dec = Append(@, <<r.row, r.col>>)]
    /\ UNCHANGED <<pipeline, disk, dirs, written, pc, tile, log, n_reads>>

\* the next iteration of the loop of tile_number_to_row_col
WalkStep ==
    /\ pc = "decoder"
    /\ Len(walk.rows) < walk.nrow * walk.ncol
    /\ walk' = walk_step(walk)
    /\ UNCHANGED <<pipeline, disk, dirs, written, pc, tile, raised, log, n_reads>>

NextDecoder == Decode \/ WalkStep

SpecDecoder == InitDecoder /\ [][NextDecoder]_vars

-----------------------------------------------------------------------------
(* _update_next_tile called on a default pipeline whose watcher recorded a  *)
(* current tile: SpecCursor                                                 *)

InitCursor ==
    /\ \E nrow \in 1..MaxRow, ncol \in 1..MaxCol, n_channels \in 1..MaxChannels,
          ftype \in {"tiff3D", "tiff2D"} :
         \E row \in 0..(nrow - 1), col \in 0..(ncol - 1) :
           pipeline = [baseRunningPipeline(nrow, ncol, n_channels, ftype)
                          EXCEPT !.next_tile = <<row, col>>,
                                 !.current_tile = Some(<<row, col>>)]
    /\ disk = EmptyDisk
    /\ dirs = {}
    /\ written = {}
    /\ pc = "call"
    /\ tile = None
    /\ raised = ""
    /\ log = <<>>
    /\ walk = NoWalk
    /\ n_reads = 0

CallUpdateNextTile ==
    /\ pc = "call"
    /\ LET r == update_next_tile(pipeline)
       IN  /\ pipeline' = r.self
           /\ raised' = r.raised
    /\ pc' = "returned"
    /\ UNCHANGED <<disk, dirs, written, tile, log, walk, n_reads>>

NextCursor == CallUpdateNextTile

SpecCursor == InitCursor /\ [][NextCursor]_vars

-----------------------------------------------------------------------------
(* The methods of one runningTile object, called in any order while the     *)
(* content of its file may change: SpecTile                                 *)

InitTile ==
    /\ \E ftype \in TileTypes, row \in 0..(MaxRow - 1), col \in 0..(MaxCol - 1),
          v \in 1..MaxVersion :
         LET path == [root |-> 1, row |-> row, col |-> col]
         IN  /\ tile = Some(runningTile(path, row, col, ftype, None, Some(0), 1))
             /\ disk = put(EmptyDisk, path, v)
             /\ pipeline = baseRunningPipeline(MaxRow, MaxCol, 1, ftype)
    /\ dirs = {}
    /\ written = {}
    /\ pc = "tile"
    /\ raised = ""
    /\ log = <<>>
    /\ walk = NoWalk
    /\ n_reads = 0

\* tile.load_tile()
TileLoad ==
    /\ pc = "tile"
    /\ Len(log) < MaxOps
    /\ n_reads < MaxReads
    /\ LET r == load_tile(Val(tile), disk)
       IN  /\ tile' = Some(r.tile)
           /\ n_reads' = n_reads + r.reads
           /\ raised' = r.raised
           /\ log' = Append(log, Event(IF r.raised = "" THEN "load" ELSE "load_raised",
                                       Val(tile).path))
    /\ UNCHANGED <<pipeline, disk, dirs, written, pc, walk>>

\* tile._erase_from_disk()
TileErase ==
    /\ pc = "tile"
    /\ Len(log) < MaxOps
    /\ LET r == erase_from_disk(Val(tile), disk)
       IN  /\ disk' = r.disk
           /\ raised' = r.raised
           /\ log' = Append(log, Event("erase", Val(tile).path))
    /\ UNCHANGED <<pipeline, dirs, written, pc, tile, walk, n_reads>>

\* the file of the tile is written again with another content
StorageChange ==
    /\ pc = "tile"
    /\ \E q \in DOMAIN disk, v \in 1..MaxVersion :
           /\ v # disk[q]
           /\ disk' = put(disk, q, v)
    /\ UNCHANGED <<pipeline, dirs, written, pc, tile, raised, log, walk, n_reads>>

NextTile == TileLoad \/ TileErase \/ StorageChange

SpecTile == InitTile /\ [][NextTile]_vars

-----------------------------------------------------------------------------
(* Properties *)

\* the paths of the events of kind op, in the order they happened
Paths(op) ==
    LET sel == SelectSeq(log, LAMBDA e : e.op = op)
    IN  [i \in 1..Len(sel) |-> sel[i].path]

Count(op, path) == Cardinality({i \in 1..Len(log) : log[i] = Event(op, path)})

\* the grid in row-major raster order
Raster(nrow, ncol) == [k \in 1..(nrow * ncol) |-> <<(k - 1) \div ncol, (k - 1) % ncol>>]

\* every tile of the acquisition is on disk, and nothing else
AllFilesAppeared == Cardinality(Acquired) = AcquisitionSize /\ Strays = {}

\* C1: default pipeline, full run: once every expected file has appeared and
\* run is over, the tiles handed to load_tile are exactly the grid positions
\* in row-major raster order, each once
C1_RasterOrder ==
    (IsBase /\ pc \in {"done", "error"} /\ AllFilesAppeared)
        => /\ pc = "done"
           /\ [i \in 1..Len(Paths("load")) |->
                  <<Paths("load")[i].row, Paths("load")[i].col>>]
              = Raster(pipeline.nrow, pipeline.ncol)

\* the tile directories the clearscope watcher has enqueued
Discovered ==
    {pipeline.buffer_tile_to_be_processed[i] :
        i \in 1..Len(pipeline.buffer_tile_to_be_processed)}

\* C2: clearscope pipeline: when run is over, each discovered tile directory
\* has been loaded exactly once, and converted exactly once when a converter
\* is configured
C2_ExactlyOnce ==
    (IsClearscope /\ pc \in {"done", "error"} /\ Strays = {}
        /\ pipeline.acq_param.ScanGridX = pipeline.acq_param.ScanGridY)
        => \A p \in Discovered :
              /\ Count("load", p) = 1
              /\ pipeline.converter # None => Count("convert", p) = 1

\* C3: the default run ends in its loop's exit with tile_processed = nrow*ncol
\* after exactly nrow*ncol successful detections
C3_Terminates ==
    (IsBase /\ pc \in {"done", "error"} /\ AllFilesAppeared)
        => /\ pc = "done"
           /\ raised = ""
           /\ pipeline.tile_processed = pipeline.nrow * pipeline.ncol
           /\ Len(Paths("detect")) = pipeline.nrow * pipeline.ncol

\* the cells of the decoder's grid
WalkGrid == (0..(walk.nrow - 1)) \X (0..(walk.ncol - 1))

\* C4: the cells _get_row_col decodes from the tile numbers 1..nrow*ncol lie in
\* the grid, are pairwise distinct, and cover the grid once all are decoded
C4_DecoderBijection ==
    /\ \A i \in 1..Len(walk.dec) : walk.dec[i] \in WalkGrid
    /\ \A i, j \in 1..Len(walk.dec) : walk.dec[i] = walk.dec[j] => i = j
    /\ Len(walk.dec) = walk.nrow * walk.ncol
           => {walk.dec[i] : i \in 1..Len(walk.dec)} = WalkGrid

C4_Witness ==
    /\ pc = "decoder"
    /\ walk.nrow = 3
    /\ walk.ncol = 3
    /\ Len(walk.dec) = 9

\* the serpentine scan in closed form
Serpentine(n, ncol) ==
    LET row == (n - 1) \div ncol
    IN  <<row, IF row % 2 = 0 THEN (n - 1) % ncol ELSE ncol - 1 - ((n - 1) % ncol)>>

\* C5: _get_row_col decodes tile number n to the cell of the serpentine scan,
\* the cell tile_number_to_row_col reaches at step n-1; for ncol = 10 the tile
\* numbers 1, 10, 11, 20 give (0,0), (0,9), (1,9), (1,0)
C5_Serpentine ==
    /\ \A n \in 1..Len(walk.dec) :
          /\ walk.dec[n] = Serpentine(n, walk.ncol)
          /\ n <= Len(walk.rows) => walk.dec[n] = <<walk.rows[n], walk.cols[n]>>
    /\ (walk.ncol = 10 /\ Len(walk.dec) >= 1) => walk.dec[1] = <<0, 0>>
    /\ (walk.ncol = 10 /\ Len(walk.dec) >= 10) => walk.dec[10] = <<0, 9>>
    /\ (walk.ncol = 10 /\ Len(walk.dec) >= 11) => walk.dec[11] = <<1, 9>>
    /\ (walk.ncol = 10 /\ Len(walk.dec) >= 20) => walk.dec[20] = <<1, 0>>

C5_Witness ==
    /\ pc = "decoder"
    /\ walk.ncol = 10
    /\ Len(walk.dec) >= 20
    /\ Len(walk.rows) >= 20

\* C6: _update_next_tile called with current_tile = (row, col) returns with
\* next_tile = (row, col+1) if col < ncol-1 and (row+1, 0) if col = ncol-1,
\* and changes nothing else
C6_CursorAdvance ==
    pc = "returned"
        => LET row == Val(pipeline.current_tile)[1]
               col == Val(pipeline.current_tile)[2]
           IN  /\ raised = ""
               /\ pipeline.next_tile
                  = IF col < pipeline.ncol - 1 THEN <<row, col + 1>> ELSE <<row + 1, 0>>
               /\ pipeline.tile_processed = 0

\* C7: a poll of the default watcher that finds more than one file for the
\* cursor ends the run with the TypeError; no tile is built, loaded or
\* converted and the pipeline object is left as it was
C7_AmbiguousIsFatal ==
    [][(Poll /\ IsBase /\ Cardinality(glob_matches(pipeline, disk)) > 1)
          => /\ pc' = "error"
             /\ raised' = "TypeError"
             /\ tile' = None
             /\ pipeline' = pipeline
             /\ log' = log
             /\ written' = written]_vars

C7_Witness ==
    /\ IsBase
    /\ pc = "error"
    /\ raised = "TypeError"
    /\ Cardinality(glob_matches(pipeline, disk)) > 1
    /\ pipeline.current_tile = None

\* C8: _erase_from_disk is invoked for a tile only if the integrity check
\* reported success; with the check as shipped, the raw data of every tile
\* that went through conversion is still on disk
C8_EraseOnlyAfterSuccess ==
    /\ \A i \in 1..Len(log) : log[i].op = "erase" => conversion_ok
    /\ ~conversion_ok
           => \A i \in 1..Len(log) :
                  log[i].op \in {"convert", "check"} => log[i].path \in DOMAIN disk

C8_Witness ==
    /\ pc \in {"stitch", "advance"}
    /\ Paths("check") # <<>>
    /\ Paths("check")[1] \in DOMAIN disk

\* C9: the raw source of a tile is erased only after the converted output of
\* that tile was written and its integrity check was made; a run with no
\* converter erases nothing; a raw file that was loaded is gone from disk
\* only through such an erase
C9_EraseAfterConvertAndCheck ==
    /\ \A i \in 1..Len(log) :
          log[i].op = "erase"
              => /\ \E j \in 1..(i - 1) : log[j] = Event("write", log[i].path)
                 /\ \E k \in 1..(i - 1) : log[k] = Event("check", log[i].path)
    /\ pipeline.converter = None => Paths("erase") = <<>>
    /\ \A i \in 1..Len(log) :
          (log[i].op = "load" /\ log[i].path \notin DOMAIN disk)
              => Count("erase", log[i].path) > 0

C9_Witness ==
    /\ pc = "error"
    /\ Paths("write") # <<>>
    /\ Paths("check") = Paths("write")
    /\ \A i \in 1..Len(Paths("write")) : Paths("write")[i] \in DOMAIN disk

\* a call of load_tile returned normally before
AlreadyLoaded == \E i \in 1..Len(log) : log[i].op = "load"

\* C10: load_tile on a tile that is already loaded reads nothing from storage
\* and leaves data, apr and parts as they are
C10_LoadIdempotent ==
    [][(TileLoad /\ AlreadyLoaded)
          => /\ n_reads' = n_reads
             /\ raised' = ""
             /\ Val(tile').data = Val(tile).data
             /\ Val(tile').apr = Val(tile).apr
             /\ Val(tile').parts = Val(tile).parts]_vars

\* a second call was made after the content of the file had changed
C10_Witness ==
    /\ pc = "tile"
    /\ Len(Paths("load")) >= 2
    /\ n_reads = 1
    /\ Val(tile).data # None
    /\ Val(tile).path \in DOMAIN disk
    /\ Val(tile).data # Some(disk[Val(tile).path])

-----------------------------------------------------------------------------
\* Positions of the events (op, path) in the log
Pos(op, path) == {i \in 1..Len(log) : log[i] = Event(op, path)}

\* The compression settings a written file carries are those of the pipeline
\* when compression is enabled, and none when it is disabled
CompressionAsConfigured ==
    \A f \in written :
        IF pipeline.compression
        THEN /\ f.parts.compression_type = 1
             /\ f.parts.quantization_factor = pipeline.quantization_factor
             /\ f.parts.background = pipeline.bg
        ELSE /\ f.parts.compression_type = 0
             /\ f.parts.quantization_factor = None
             /\ f.parts.background = None

\* A tile is written after its particles got the compression settings when
\* compression is enabled, and no tile ever gets them when it is disabled
CompressBeforeWrite ==
    /\ \A i \in 1..Len(log) :
           (log[i].op = "write" /\ pipeline.compression)
               => \E j \in 1..(i - 1) : log[j] = Event("compress", log[i].path)
    /\ (~pipeline.compression) => Paths("compress") = <<>>

\* C11 as stated: when compression is enabled quantization factor and
\* background are applied to the particles before the write, when it is
\* disabled they are never applied, and they are never applied before the
\* integrity check of the tile has run
C11_CompressionAfterCheck ==
    /\ CompressionAsConfigured
    /\ CompressBeforeWrite
    /\ \A i \in 1..Len(log) :
           log[i].op = "compress"
               => \E k \in 1..(i - 1) : log[k] = Event("check", log[i].path)

\* C11 amended: when compression is enabled quantization factor and background
\* are applied to the particles before the write, when it is disabled they are
\* never applied; they are applied inside _convert_to_apr, so before the
\* integrity check of the tile is called, and they leave the pixel buffer
\* tile.data, the only value the check is handed, as it was loaded
C11_CompressionBeforeWrite ==
    /\ CompressionAsConfigured
    /\ CompressBeforeWrite
    /\ \A i \in 1..Len(log) :
           log[i].op = "compress"
               => /\ \E j \in 1..(i - 1) : log[j] = Event("convert", log[i].path)
                  /\ \A k \in 1..(i - 1) : log[k] # Event("check", log[i].path)
    /\ \A f \in written :
           (tile # None /\ Val(tile).path = f.src) => Val(tile).data = Some(f.parts.values)

\* a compressed tile and an uncompressed one cannot be told apart by one state;
\* this one is the compressed tile, written and checked
C11_Witness ==
    /\ pipeline.compression
    /\ \E f \in written :
           /\ f.parts.compression_type = 1
           /\ Pos("compress", f.src) # {}
           /\ Pos("write", f.src) # {}
           /\ Pos("check", f.src) # {}

-----------------------------------------------------------------------------
\* clearscopeRunningPipeline._is_new_tile_available called again and again, as
\* the loop of run calls it, while tile directories come and go

MaxPolls == 3

\* path of the event of a call that returned no tile
NoPath == [ok |-> FALSE, n |-> -1, ch |-> -1]

InitWatcher ==
    /\ pipeline \in {clearscopeRunningPipeline([ScanGridX |-> x, ScanGridY |-> y], n_channels) :
                        x \in 1..MaxGrid, y \in 1..MaxGrid, n_channels \in 1..MaxChannels}
    /\ disk = EmptyDisk
    /\ dirs = {}
    /\ written = {}
    /\ pc = "watch"
    /\ tile = None
    /\ raised = ""
    /\ log = <<>>
    /\ walk = NoWalk
    /\ n_reads = 0

\* the instrument writes the directory of its next tile
TileArrives ==
    /\ pc = "watch"
    /\ Cardinality(DOMAIN disk) < MaxFiles
    /\ Cardinality(DOMAIN disk) < AcquisitionSize
    /\ \E k \in 0..(AcquisitionSize - 1) :
           /\ AcquisitionPath(k) \notin DOMAIN disk
           /\ \A j \in 0..(k - 1) : AcquisitionPath(j) \in DOMAIN disk
           /\ disk' = put(disk, AcquisitionPath(k), 1)
    /\ UNCHANGED <<pipeline, dirs, written, pc, tile, raised, log, walk, n_reads>>

\* a tile directory is moved out of the acquisition folder
DirectoryRemoved ==
    /\ pc = "watch"
    /\ \E q \in DOMAIN disk : disk' = [p \in DOMAIN disk \ {q} |-> disk[p]]
    /\ UNCHANGED <<pipeline, dirs, written, pc, tile, raised, log, walk, n_reads>>

\* one call of self._is_new_tile_available(); the log keeps what it returned:
\* (True, tile), (False, None) or None
CallIsNewTileAvailable ==
    /\ pc = "watch"
    /\ Len(log) < MaxPolls
    /\ \E paths \in Perms(glob_matches(pipeline, disk)) :
           LET r == clearscope_is_new_tile_available(pipeline, paths)
           IN  /\ pipeline' = r.self
               /\ tile' = r.tile
               /\ raised' = r.raised
               /\ log' = Append(log,
                     IF r.raised # "" THEN Event("raised", NoPath)
                     ELSE IF ~r.pair THEN Event("returned_none", NoPath)
                     ELSE IF r.available THEN Event("returned_true", Val(r.tile).path)
                     ELSE Event("returned_false", NoPath))
    /\ UNCHANGED <<disk, dirs, written, pc, walk, n_reads>>

NextWatcher == TileArrives \/ DirectoryRemoved \/ CallIsNewTileAvailable

SpecWatcher == InitWatcher /\ [][NextWatcher]_vars

-----------------------------------------------------------------------------
\* C12: after any sequence of polls of the burst watcher the buffer holds no
\* path more than once: a path that was enqueued is never enqueued again
C12_NoDuplicates ==
    LET buffer == pipeline.buffer_tile_to_be_processed
    IN  \A i, j \in 1..Len(buffer) : buffer[i] = buffer[j] => i = j

\* C13: every call of the burst watcher returns a pair; it returns
\* (True, tile) exactly when the buffer is not empty after the scan, and the
\* tile is then the one of the head of the buffer; otherwise (False, None)
C13_ReturnsBufferHead ==
    LET buffer == pipeline.buffer_tile_to_be_processed
        last == log[Len(log)]
    IN  log # <<>> =>
            /\ last.op \in {"returned_true", "returned_false"}
            /\ last.op = "returned_true" <=> buffer # <<>>
            /\ last.op = "returned_true" => last.path = buffer[1]

-----------------------------------------------------------------------------
\* run is inside the iteration of a tile
InIteration == pc \in {"load", "convert", "check", "stitch", "advance"}

\* errors that end a run by design: an ambiguous match or an unsupported tile
\* type (TypeError), a file that cannot be read or written
FatalByDesign == {"TypeError", "IOError", "FileNotFoundError"}

\* run is between two iterations, or over for another reason than an error
\* that is fatal by design, and nothing but tiles is in the acquisition folder
IterationOver ==
    /\ pc \in {"poll", "done", "error"}
    /\ raised \notin FatalByDesign
    /\ Strays = {}

\* C14: the burst buffer drains in discovery order: the tile in process is the
\* one of the oldest entry of the buffer, and once a tile is processed its
\* entry has been removed from the buffer
C14_DrainsInOrder ==
    LET buffer == pipeline.buffer_tile_to_be_processed
    IN  IsClearscope =>
            /\ InIteration => Val(tile).path = buffer[1]
            /\ IterationOver =>
                   \A i \in 1..Len(log) :
                       log[i].op = "load" =>
                           \A k \in 1..Len(buffer) : buffer[k] # log[i].path

\* the steps of run on the tile at path p, in the order they were performed
Steps(p) ==
    LET IsStep(e) == e.path = p /\ e.op \in {"load", "convert", "check", "advance", "count"}
        steps == SelectSeq(log, IsStep)
    IN  [i \in 1..Len(steps) |-> steps[i].op]

\* C15: for each available tile run performs load, convert, integrity check,
\* cursor advance and tile_processed += 1 in this order, convert and check
\* exactly when a converter is configured
C15_StepsInOrder ==
    IterationOver =>
        \A i \in 1..Len(log) :
            log[i].op = "detect" =>
                Steps(log[i].path) =
                    <<"load">>
                    \o (IF pipeline.converter # None THEN <<"convert", "check">> ELSE <<>>)
                    \o <<"advance", "count">>

\* C16: 0 <= tile_processed <= nrow*ncol, tile_processed is the number of
\* tiles processed so far, and the loop is left exactly when it equals
\* nrow*ncol
C16_TileProcessed ==
    /\ 0 <= pipeline.tile_processed
    /\ pipeline.tile_processed <= pipeline.nrow * pipeline.ncol
    /\ IterationOver =>
           /\ pipeline.tile_processed = Len(Paths("load"))
           /\ pc \in {"done", "error"} <=> pipeline.tile_processed = pipeline.nrow * pipeline.ncol

-----------------------------------------------------------------------------
\* One iteration of baseRunningPipeline.run on a tile the watcher returned,
\* for a pipeline constructed with any ftype.  The class leaves _get_row_col
\* and _get_channel to be defined; the tile is the one _get_tile builds from
\* the row, column and channel they decode for the file at next_tile.

InitIteration ==
    /\ \E ftype \in TileTypes, n_channels \in 1..MaxChannels :
           pipeline = baseRunningPipeline(MaxRow, MaxCol, n_channels, ftype)
    /\ disk = put(EmptyDisk, [root |-> 1, row |-> 0, col |-> 0], 1)
    /\ dirs \in InitialDirs
    /\ written = {}
    /\ pc = "config"
    /\ tile = None
    /\ raised = ""
    /\ log = <<>>
    /\ walk = NoWalk
    /\ n_reads = 0

\* is_available, tile = self._is_new_tile_available() with the one file found
TileAvailable ==
    /\ pc = "poll"
    /\ \E path \in glob_matches(pipeline, disk), channel \in 0..(pipeline.n_channels - 1) :
           /\ pipeline' = [pipeline EXCEPT !.current_tile =
                               Some(<<pipeline.next_tile[1], pipeline.next_tile[2]>>)]
           /\ tile' = Some(runningTile(path, path.row, path.col, pipeline.type, None,
                                       Some(channel), pipeline.n_channels))
           /\ log' = Append(log, Event("detect", path))
    /\ pc' = "load"
    /\ UNCHANGED <<disk, dirs, written, raised, walk, n_reads>>

NextIteration ==
    \/ SetCompression
    \/ DeactivateCompression
    \/ ActivateConversion
    \/ ActivateStitching
    \/ RunStart
    \/ TileAvailable
    \/ Load
    \/ Convert
    \/ Check
    \/ PreStitch
    \/ Advance

SpecIteration == InitIteration /\ [][NextIteration]_vars

-----------------------------------------------------------------------------
SupportedTypes == {"colm", "clearscope", "tiff3D", "apr", "raw"}

DocumentedFtypes == {"tiff2D", "tiff3D"}

\* C19: a tile of a type the constructor of baseRunningPipeline documents as
\* accepted is loaded by load_tile without the unsupported-type error
C19_DocumentedTypesLoad ==
    (tile # None /\ pipeline.type \in DocumentedFtypes /\ Val(tile).type = pipeline.type)
        => raised # "TypeError"

\* C20: a directory whose name the decoder's pattern does not match is skipped
\* silently: with nothing but such directories in the folder the run goes on
C20_UnmatchedNameSkipped ==
    (IsClearscope /\ Strays # {} /\ Acquired = {}) => (pc # "error" /\ raised = "")

-----------------------------------------------------------------------------
\* clearscopeRunningPipeline.__init__ waiting for the acquisition settings.
\* A settings file is at [folder |-> f], f the folder under the acquisition
\* root that holds it; its content is the parameters it lists.

MaxRetries == 3

\* glob(os.path.join(self.path, '*_AcquireSettings.txt')) of the first check
\* and glob(os.path.join(self.path, '0001', '*_AcquireSettings.txt')) of the
\* retries, self.path being {path}/0001
settings_glob(dsk, retry) ==
    {p \in DOMAIN dsk : p.folder = IF retry THEN "0001/0001" ELSE "0001"}

SettingsFolders == {"0001", "0001/0001"}

InitStartup ==
    /\ pipeline = [class |-> "clearscopeRunningPipeline", path |-> "path/0001",
                   acq_param |-> None]
    /\ disk = EmptyDisk
    /\ dirs = {}
    /\ written = {}
    /\ pc = "parse"
    /\ tile = None
    /\ raised = ""
    /\ log = <<>>
    /\ walk = NoWalk
    /\ n_reads = 0

\* the instrument writes its settings file
SettingsWritten ==
    /\ pc \in {"parse", "retry"}
    /\ \E f \in SettingsFolders, x \in 1..MaxGrid, y \in 1..MaxGrid :
           /\ [folder |-> f] \notin DOMAIN disk
           /\ disk' = put(disk, [folder |-> f], [ScanGridX |-> x, ScanGridY |-> y])
    /\ UNCHANGED <<pipeline, dirs, written, pc, tile, raised, log, walk, n_reads>>

\* the rest of the constructor once files is not empty
ParseReturns(files) ==
    \E path \in files, n_channels \in 1..MaxChannels :
        /\ pipeline' = clearscopeRunningPipeline(disk[path], n_channels)
        /\ pc' = "config"

\* files = glob(...) before the loop
ParseFirstGlob ==
    /\ pc = "parse"
    /\ LET files == settings_glob(disk, FALSE)
       IN  IF files = {}
           THEN pc' = "sleep" /\ pipeline' = pipeline
           ELSE ParseReturns(files)
    /\ n_reads' = n_reads + 1
    /\ UNCHANGED <<disk, dirs, written, tile, raised, log, walk>>

\* sleep(1) in the loop
ParseSleep ==
    /\ pc = "sleep"
    /\ n_reads < MaxRetries
    /\ pc' = "retry"
    /\ UNCHANGED <<pipeline, disk, dirs, written, tile, raised, log, walk, n_reads>>

\* files = glob(...) in the loop
ParseRetry ==
    /\ pc = "retry"
    /\ LET files == settings_glob(disk, TRUE)
       IN  IF files = {}
           THEN pc' = "sleep" /\ pipeline' = pipeline
           ELSE ParseReturns(files)
    /\ n_reads' = n_reads + 1
    /\ UNCHANGED <<disk, dirs, written, tile, raised, log, walk>>

NextStartup == SettingsWritten \/ ParseFirstGlob \/ ParseSleep \/ ParseRetry

SpecStartup == InitStartup /\ [][NextStartup]_vars

\* C21: the parse of the acquisition settings does not return while no
\* settings file is under {path}/0001, and once one is there the check the
\* parse makes next finds it, after any number of retries
C21_SettingsFound ==
    /\ pc = "config" => settings_glob(disk, FALSE) # {}
    /\ (pc \in {"parse", "retry"} /\ settings_glob(disk, FALSE) # {})
           => settings_glob(disk, pc = "retry") # {}

-----------------------------------------------------------------------------
\* C22: once _convert_to_apr has run its write call for a tile, the folder
\* ch{channel} of the tile exists (it was created if absent) and holds the
\* tile's file {row}_{col}.apr
C22_ChannelDirCreated ==
    (tile # None /\ Pos("convert", Val(tile).path) # {}) =>
        /\ ChDir(Val(tile).channel) \in dirs
        /\ \E f \in written : f.src = Val(tile).path /\ f.ch = Val(tile).channel

-----------------------------------------------------------------------------
\* C23: a written file carries tree particles, derived from the converted
\* tile before the write, exactly when lazy_loading is enabled; when it is
\* disabled none are derived and none are passed to the write
C23_TreeWhenLazy ==
    /\ \A f \in written :
           IF Truthy(pipeline.lazy_loading)
           THEN f.tree_parts = Some(f.apr)
           ELSE f.tree_parts = None
    /\ \A i \in 1..Len(log) :
           log[i].op = "write" =>
               (Truthy(pipeline.lazy_loading)
                    <=> \E j \in 1..(i - 1) : log[j] = Event("tree", log[i].path))
    /\ \A i \in 1..Len(log) :
           log[i].op = "tree" =>
               /\ Truthy(pipeline.lazy_loading)
               /\ \E j \in 1..(i - 1) : log[j] = Event("convert", log[i].path)

\* a tile written with its tree particles
C23_Witness ==
    /\ pipeline.lazy_loading = Some(TRUE)
    /\ \E f \in written :
           /\ f.tree_parts # None
           /\ Pos("tree", f.src) # {}
           /\ Pos("write", f.src) # {}

-----------------------------------------------------------------------------
\* runningTile.load_tile, load_neighbors and _erase_from_disk called in any
\* order on a tile that was given the paths of its neighbors, while the files
\* change

NeighborPaths ==
    LET east == [root |-> 1, row |-> 0, col |-> 1]
    IN  {None, Some(<<>>), Some(<<east>>)}

InitNeighbors ==
    /\ \E ftype \in TileTypes, neighbors_path \in NeighborPaths, v \in 1..MaxVersion :
         LET path == [root |-> 1, row |-> 0, col |-> 0]
             files == {path} \cup (IF neighbors_path = None THEN {}
                                   ELSE {Val(neighbors_path)[i] :
                                            i \in 1..Len(Val(neighbors_path))})
         IN  /\ tile = Some(runningTile(path, 0, 0, ftype, neighbors_path, Some(0), 1))
             /\ disk = [p \in files |-> v]
             /\ pipeline = baseRunningPipeline(MaxRow, MaxCol, 1, ftype)
    /\ dirs = {}
    /\ written = {}
    /\ pc = "tile"
    /\ raised = ""
    /\ log = <<>>
    /\ walk = NoWalk
    /\ n_reads = 0

\* tile.load_neighbors()
TileLoadNeighbors ==
    /\ pc = "tile"
    /\ Len(log) < MaxOps
    /\ n_reads < MaxReads
    /\ LET r == load_neighbors(Val(tile), disk)
       IN  /\ tile' = Some(r.tile)
           /\ n_reads' = n_reads + r.reads
           /\ raised' = r.raised
           /\ log' = Append(log, Event(IF r.raised = "" THEN "load_neighbors"
                                       ELSE "load_neighbors_raised", Val(tile).path))
    /\ UNCHANGED <<pipeline, disk, dirs, written, pc, walk>>

NextNeighbors == TileLoad \/ TileLoadNeighbors \/ TileErase \/ StorageChange

SpecNeighbors == InitNeighbors /\ [][NextNeighbors]_vars

\* load_neighbors has returned for this tile without raising
NeighborsLoaded == Paths("load_neighbors") # <<>>

\* C24: load_neighbors is idempotent for every tile type: a call after one
\* that returned reads nothing and leaves data_neighbors, apr_neighbors and
\* parts_neighbors as they are
C24_LoadNeighborsIdempotent ==
    [][(TileLoadNeighbors /\ NeighborsLoaded) =>
           /\ n_reads' = n_reads
           /\ Val(tile').data_neighbors = Val(tile).data_neighbors
           /\ Val(tile').apr_neighbors = Val(tile).apr_neighbors
           /\ Val(tile').parts_neighbors = Val(tile).parts_neighbors]_vars

\* C25: load_neighbors leaves the load-state of the tile itself unchanged:
\* data, apr, parts, parts_cc and lazy_data are after the call as before
C25_LoadNeighborsFrame ==
    [][TileLoadNeighbors =>
           /\ Val(tile').data = Val(tile).data
           /\ Val(tile').apr = Val(tile).apr
           /\ Val(tile').parts = Val(tile).parts
           /\ Val(tile').parts_cc = Val(tile).parts_cc
           /\ Val(tile').lazy_data = Val(tile).lazy_data]_vars

\* the neighbors of a loaded tile were read
C25_Witness ==
    /\ NeighborsLoaded
    /\ Paths("load") # <<>>
    /\ Val(tile).data # None
    /\ Val(tile).data_neighbors # None
    /\ Val(tile).data_neighbors # Some(<<>>)

-----------------------------------------------------------------------------
\* C26: _erase_from_disk removes at most the raw file of the tile itself, and
\* only for type 'tiff3D'; for every other type it removes nothing; every
\* other file keeps its content and no converted file is removed
C26_EraseScope ==
    [][TileErase =>
           /\ DOMAIN disk' \subseteq DOMAIN disk
           /\ (DOMAIN disk \ DOMAIN disk') \subseteq {Val(tile).path}
           /\ Val(tile).type # "tiff3D" => DOMAIN disk' = DOMAIN disk
           /\ \A p \in DOMAIN disk' : disk'[p] = disk[p]
           /\ written' = written]_vars

\* the raw file of a tiff3D tile was erased and those of its neighbors are
\* still there
C26_Witness ==
    /\ Paths("erase") # <<>>
    /\ Val(tile).type = "tiff3D"
    /\ Val(tile).path \notin DOMAIN disk
    /\ DOMAIN disk # {}

-----------------------------------------------------------------------------
\* C27: an integrity check that does not succeed is not fatal: when the
\* iteration of a tile that was checked is over, no error was raised, the raw
\* data of the tile is still on disk and the tile was counted
C27_CheckNonFatal ==
    pc \in {"poll", "done", "error"} =>
        \A i \in 1..Len(log) :
            log[i].op = "check" =>
                /\ raised = ""
                /\ log[i].path \in DOMAIN disk
                /\ Pos("erase", log[i].path) = {}
                /\ Pos("count", log[i].path) # {}

-----------------------------------------------------------------------------
\* C28: a poll of the default watcher that finds no file for the cursor
\* raises nothing and changes nothing of the pipeline (next_tile,
\* current_tile, tile_processed): run stays in its loop and polls again for
\* the same cursor
C28_NoMatchNoChange ==
    [][(Poll /\ IsBase /\ glob_matches(pipeline, disk) = {}) =>
           /\ pipeline' = pipeline
           /\ raised' = ""
           /\ tile' = None
           /\ log' = log
           /\ pc' = "poll"]_vars

\* the default pipeline is polling and no file of the cursor is there
C28_Witness ==
    /\ IsBase
    /\ pc = "poll"
    /\ glob_matches(pipeline, disk) = {}
    /\ pipeline.current_tile = None
    /\ pipeline.next_tile = <<0, 0>>

-----------------------------------------------------------------------------
\* C29: a poll of the default watcher that finds exactly one file for the
\* cursor stores the cursor as current tile and returns the tile of that file,
\* whose row and column, decoded from the file name, are those of the cursor
C29_OneMatchReturnsTile ==
    [][(Poll /\ IsBase /\ Cardinality(glob_matches(pipeline, disk)) = 1) =>
           /\ pipeline'.current_tile = Some(pipeline.next_tile)
           /\ raised' = ""
           /\ pc' = "load"
           /\ tile' # None
           /\ Val(tile').path \in glob_matches(pipeline, disk)
           /\ <<Val(tile').row, Val(tile').col>> = pipeline.next_tile]_vars

-----------------------------------------------------------------------------
\* the directories of all nrow*ncol tiles are in the acquisition folder
AllDirectoriesAppeared ==
    \A n \in 1..(pipeline.nrow * pipeline.ncol) : \E p \in Acquired : p.n = n

\* C30: once the directories of all tiles have appeared, in whatever grouping
\* between the polls, the clearscope run ends only by leaving its loop, with
\* tile_processed = nrow*ncol and nothing raised
C30_ClearscopeTerminates ==
    (IsClearscope /\ Strays = {} /\ AllDirectoriesAppeared /\ pc \in {"done", "error"})
        => /\ pc = "done"
           /\ raised = ""
           /\ pipeline.tile_processed = pipeline.nrow * pipeline.ncol

-----------------------------------------------------------------------------
\* runningTile.load_tile, load_segmentation and _erase_from_disk called in any
\* order on one tile, while its file changes

InitSegmentation ==
    /\ \E ftype \in TileTypes, v \in 1..MaxVersion :
         LET path == [root |-> 1, row |-> 0, col |-> 0]
         IN  /\ tile = Some(runningTile(path, 0, 0, ftype, None, Some(0), 1))
             /\ disk = put(EmptyDisk, path, v)
             /\ pipeline = baseRunningPipeline(MaxRow, MaxCol, 1, ftype)
    /\ dirs = {}
    /\ written = {}
    /\ pc = "tile"
    /\ raised = ""
    /\ log = <<>>
    /\ walk = NoWalk
    /\ n_reads = 0

\* tile.load_segmentation(load_tree)
TileLoadSegmentation ==
    /\ pc = "tile"
    /\ Len(log) < MaxOps
    /\ n_reads < MaxReads
    /\ \E load_tree \in BOOLEAN, outcome \in OpenOutcomes :
           LET r == load_segmentation(Val(tile), load_tree, disk, outcome)
           IN  /\ tile' = Some(r.tile)
               /\ n_reads' = n_reads + r.reads
               /\ raised' = r.raised
               /\ log' = Append(log, Event(IF load_tree THEN "load_segmentation_tree"
                                           ELSE "load_segmentation", Val(tile).path))
    /\ UNCHANGED <<pipeline, disk, dirs, written, pc, walk>>

NextSegmentation == TileLoad \/ TileLoadSegmentation \/ TileErase \/ StorageChange

SpecSegmentation == InitSegmentation /\ [][NextSegmentation]_vars

\* C31: load_segmentation is idempotent: once parts_cc is set a call, with
\* either value of load_tree, opens no file and changes nothing of the tile;
\* a first call with load_tree = False leaves apr unchanged, and a first call
\* with load_tree = True sets apr to the one read from the tile's file
C31_LoadSegmentationIdempotent ==
    [][TileLoadSegmentation =>
           LET t == Val(tile)
               load_tree == log'[Len(log')].op = "load_segmentation_tree"
           IN  /\ t.parts_cc # None => (n_reads' = n_reads /\ tile' = tile)
               /\ (t.parts_cc = None /\ ~load_tree) => Val(tile').apr = t.apr
               /\ (t.parts_cc = None /\ load_tree /\ raised' = ""
                       /\ t.path \in DOMAIN disk /\ t.type = "apr")
                      => /\ Val(tile').apr = Some(disk[t.path])
                         /\ Val(tile').parts_cc # None]_vars

\* the segmentation of a tile was loaded with its tree, then asked for again
\* after the file had changed
C31_Witness ==
    /\ Val(tile).type = "apr"
    /\ Val(tile).parts_cc # None
    /\ Val(tile).path \in DOMAIN disk
    /\ Val(tile).apr # Some(disk[Val(tile).path])
    /\ Pos("load_segmentation_tree", Val(tile).path) # {}
    /\ Len(log) >= 2
    /\ log[Len(log)].op \in {"load_segmentation", "load_segmentation_tree"}
    /\ log[Len(log) - 1].op = "load_segmentation_tree"

-----------------------------------------------------------------------------
-----------------------------------------------------------------------------
\* cells a and b are in the same row with columns one apart, or in the same
\* column with b one row below a
Continuous(a, b) ==
    \/ a[1] = b[1] /\ Abs(a[2] - b[2]) = 1
    \/ a[2] = b[2] /\ b[1] = a[1] + 1

\* C33: the cells the clearscope decoder gives tile numbers n and n+1 are
\* grid neighbours, for every ncol >= 1 and every n in 1..nrow*ncol - 1
C33_SerpentineContinuity ==
    \A n \in 1..(Len(walk.dec) - 1) : Continuous(walk.dec[n], walk.dec[n + 1])

\* a whole grid of at least two rows and two columns was decoded: steps along
\* a row in both directions and steps to the next row
C33_Witness ==
    /\ walk.nrow >= 3
    /\ walk.ncol >= 2
    /\ Len(walk.dec) = walk.nrow * walk.ncol
    /\ \E n \in 1..(Len(walk.dec) - 1) : walk.dec[n + 1][2] = walk.dec[n][2] + 1
    /\ \E n \in 1..(Len(walk.dec) - 1) : walk.dec[n + 1][2] = walk.dec[n][2] - 1
    /\ \E n \in 1..(Len(walk.dec) - 1) : walk.dec[n + 1][1] = walk.dec[n][1] + 1

-----------------------------------------------------------------------------
\* C34: the clearscope pipeline takes nrow and ncol from the two entries
\* ScanGridX and ScanGridY of the acquisition settings: once constructed its
\* n_tiles is ScanGridX * ScanGridY, for a grid that is not square too
C34_GridFromBothEntries ==
    (IsClearscope /\ pc = "config") =>
        /\ {pipeline.nrow, pipeline.ncol} =
               {pipeline.acq_param.ScanGridX, pipeline.acq_param.ScanGridY}
        /\ pipeline.n_tiles = pipeline.acq_param.ScanGridX * pipeline.acq_param.ScanGridY

-----------------------------------------------------------------------------
\* C35: with stitching activated the pre-stitch step of an iteration does not
\* abort the run: it returns and run goes on to advance the cursor
C35_PreStitchReturns ==
    [][PreStitch => (raised' = "" /\ pc' = "advance")]_vars

-----------------------------------------------------------------------------
\* C36: a clearscope pipeline built with n_channels = c > 1 does not leave the
\* loop of run while fewer than nrow*ncol*c tiles have been processed: the
\* loop test lets run continue for every such value of tile_processed
C36_AllChannelsProcessed ==
    (IsClearscope /\ pipeline.n_channels > 1 /\ pc # "config") =>
        \A k \in 0..(pipeline.nrow * pipeline.ncol * pipeline.n_channels - 1) :
            loop_test([pipeline EXCEPT !.tile_processed = k]) # "done"

-----------------------------------------------------------------------------
\* compression is enabled exactly when both of its parameters are set
CompressionConsistent ==
    pipeline.compression <=> (pipeline.bg # None /\ pipeline.quantization_factor # None)

\* the attributes of the pipeline that the compression settings leave alone
CompressionFrame ==
    /\ DOMAIN pipeline' = DOMAIN pipeline
    /\ \A a \in {"next_tile", "tile_processed", "converter", "lazy_loading"} :
           HasAttr(pipeline, a) => pipeline'[a] = pipeline[a]

\* C37: through any sequence of set_compression and deactivate_compression
\* calls compression is True exactly when bg and quantization_factor are both
\* set; deactivate_compression restores the constructor's (False, None, None);
\* and neither call changes next_tile, tile_processed, converter or lazy_loading
C37_CompressionConfiguration ==
    /\ []CompressionConsistent
    /\ [][/\ SetCompression =>
                /\ pipeline'.compression
                /\ pipeline'.bg # None /\ pipeline'.quantization_factor # None
                /\ CompressionFrame
          /\ DeactivateCompression =>
                /\ ~pipeline'.compression
                /\ pipeline'.bg = None /\ pipeline'.quantization_factor = None
                /\ CompressionFrame]_vars

\* compression was set on a pipeline whose conversion is activated
C37_Witness ==
    /\ pc = "config"
    /\ pipeline.compression
    /\ pipeline.bg = Some(108) /\ pipeline.quantization_factor = Some(2)
    /\ pipeline.converter # None /\ pipeline.lazy_loading = Some(TRUE)

====
